---- MODULE Spec2Model ----
(***************************************************************************)
(* SpaceKeeper (poc/engine/spacekeeper/capacity/capacity.go): the state    *)
(* indexes, workSpaceList, the plotter queue and its handoff channel, the  *)
(* action verbs, the planners and ResetDBDirs.                             *)
(*                                                                         *)
(* A WorkSpace is identified by its SpaceID <<ordinal, bitLength>> (the    *)
(* public key is the wallet's key of that ordinal).  Client goroutines are *)
(* the threads 1..NumThreads; the plotter loop is a separate process.      *)
(* A verb takes stateLock, runs and releases it in one step, except that   *)
(* the channel send of PlotWS/MineWS is a step of its own, taken while the *)
(* lock is still held.  The planners, which take no lock, run in two       *)
(* steps: the entry guards, then the body with the deferred clear of       *)
(* configuring.                                                            *)
(***************************************************************************)
EXTENDS Integers, Sequences, FiniteSets, TLC

\* ---------------------------------------------------------------- bounds
NumThreads == 2
MaxOrdinal == 1
MaxQueue == 1
MaxCount == 1
MaxDirs == 2
MaxSize == 1
MaxChan == 1
MaxFound == 2
MaxWideSize == 21
MaxWideOrdinal == 5
MaxWideCount == 2

\* ------------------------------------------------------------- constants
\* capacity of newQueuedWorkSpaceCh: 1024 in the source, MaxChan here, so
\* that a full channel is reachable
plotterMaxChanSize == MaxChan

Threads == 1..NumThreads
Nil == [sid |-> <<0, 0>>, wouldMining |-> FALSE, st |-> 0, nil |-> TRUE]

Registered == "Registered"
Plotting == "Plotting"
Ready == "Ready"
Mining == "Mining"
allState == "All"
States == {Registered, Plotting, Ready, Mining}
IndexKeys == States \cup {allState}

StateIdx(s) == CASE s = Registered -> 0 [] s = Plotting -> 1 [] s = Ready -> 2 [] s = Mining -> 3

usableBitLength == <<24, 26, 28>>
\* poc.BitLengthDiskSize and poc.MinDiskSize, in units of the smallest plot
BitLengthDiskSize(bl) == CASE bl = 24 -> 1 [] bl = 26 -> 4 [] bl = 28 -> 16
MinDiskSize == BitLengthDiskSize(24)
\* the bitLengths a ConfigureByBitLength caller asks for
TargetBLs == {24}
\* the bitLengths the planners can generate within the bounds
GenBLs == TargetBLs \cup {usableBitLength[i] : i \in {k \in 1..3 :
                              BitLengthDiskSize(usableBitLength[k]) <= MaxSize}}

\* SpaceIDs of keys the wallet generates, and of one plot found on disk by
\* the initial scan or named by a ConfigureByPubKey caller
GenSids == (1..MaxOrdinal) \X GenBLs
ExtSids == {<<0, 24>>}
Sids == GenSids \cup ExtSids
Dirs == {"d1", "d2"}

ErrNil == "nil"
ErrWalletIsLocked == "ErrWalletIsLocked"
ErrSpaceKeeperIsRunning == "ErrSpaceKeeperIsRunning"
ErrSpaceKeeperIsNotRunning == "ErrSpaceKeeperIsNotRunning"
ErrSpaceKeeperIsConfiguring == "ErrSpaceKeeperIsConfiguring"
ErrSpaceKeeperChangeDBDirs == "ErrSpaceKeeperChangeDBDirs"
ErrSpaceKeeperConfiguredNothing == "ErrSpaceKeeperConfiguredNothing"
ErrWorkSpaceDoesNotExist == "ErrWorkSpaceDoesNotExist"
ErrWorkSpaceIsNotPlotting == "ErrWorkSpaceIsNotPlotting"
ErrWorkSpaceIsNotStill == "ErrWorkSpaceIsNotStill"
ErrWorkSpaceCannotGenerate == "ErrWorkSpaceCannotGenerate"
ErrConfigUnderSizeTarget == "ErrConfigUnderSizeTarget"
ErrInvalidRequiredBytes == "ErrInvalidRequiredBytes"
ErrOSDiskSizeNotEnough == "ErrOSDiskSizeNotEnough"
PanicNilPoppedItem == "panic: nil popped item"

VARIABLES
    started,               \* BaseService.Started()
    configuring,           \* sk.configuring (atomic int32)
    configured,            \* sk.configured (atomic int32)
    allowGenerateNewSpace, \* sk.allowGenerateNewSpace
    dbDirs,                \* sk.dbDirs
    nextOrdinal,           \* ordinal of the wallet's next new public key
    workSpaceIndex,        \* sk.workSpaceIndex: index key -> set of SpaceIDs
    wsState,               \* ws.state of the WorkSpace object of each SpaceID
    using,                 \* ws.using
    workSpaceList,         \* sk.workSpaceList
    queue,                 \* sk.queue: pending jobs, best priority first
    poppedItem,            \* sk.queue.PoppedItem()
    newQueuedWorkSpaceCh,  \* sk.newQueuedWorkSpaceCh
    stateLock,             \* sk.stateLock: [writer, readers]
    thr,                   \* per client thread: where it is in its call
    plotter,               \* the plotter loop: "exited", "loop", "plotting"
    stopPlot               \* ws.StopPlot() was called on the in-flight plot

vars == <<started, configuring, configured, allowGenerateNewSpace, dbDirs,
          nextOrdinal, workSpaceIndex, wsState, using, workSpaceList, queue,
          poppedItem, newQueuedWorkSpaceCh, stateLock, thr, plotter, stopPlot>>

svcVars == <<started>>
\* sk.quit is closed from Stop to the next Start
quit == ~started
cfgVars == <<configuring, configured, allowGenerateNewSpace, dbDirs, nextOrdinal>>
wsVars == <<workSpaceIndex, wsState, using, workSpaceList>>
qVars == <<queue, poppedItem, newQueuedWorkSpaceCh>>

Idle == [at |-> "idle", op |-> "", job |-> Nil]

Init ==
    /\ started = FALSE
    /\ configuring = 0
    /\ configured = 0
    /\ allowGenerateNewSpace \in BOOLEAN
    /\ dbDirs = <<>>
    /\ nextOrdinal = 1
    /\ workSpaceIndex = [k \in IndexKeys |-> {}]
    /\ wsState = [s \in Sids |-> Registered]
    /\ using = [s \in Sids |-> FALSE]
    /\ workSpaceList = <<>>
    /\ queue = <<>>
    /\ poppedItem = Nil
    /\ newQueuedWorkSpaceCh = <<>>
    /\ stateLock = [writer |-> 0, readers |-> {}]
    /\ thr = [t \in Threads |-> Idle]
    /\ plotter = "exited"
    /\ stopPlot = FALSE

\* ------------------------------------------------------------ stateLock
CanRLock == stateLock.writer = 0
CanLock == stateLock.writer = 0 /\ stateLock.readers = {}
HoldsLock(t) == stateLock.writer = t \/ t \in stateLock.readers
Unlocked(t) == [writer |-> IF stateLock.writer = t THEN 0 ELSE stateLock.writer,
                readers |-> stateLock.readers \ {t}]

\* ------------------------------------------------------------- helpers
SeqToSet(s) == {s[i] : i \in 1..Len(s)}

RECURSIVE deleteFromSlice(_, _)
deleteFromSlice(src, sid) ==
    IF src = <<>> THEN src
    ELSE IF Head(src) = sid THEN Tail(src)
    ELSE <<Head(src)>> \o deleteFromSlice(Tail(src), sid)

\* plotterQueue ----------------------------------------------------------
\* a job as the verbs and planners create it; its priority is taken when it
\* is pushed (Push(qws, qws.priority()))
newQueuedWorkSpace(sid, wouldMining) ==
    [sid |-> sid, wouldMining |-> wouldMining, st |-> 0, nil |-> FALSE]

priority(j, st) == [j EXCEPT !.st = StateIdx(st[j.sid])]

\* lower state first, then larger bitLength, then smaller ordinal
Before(a, b) ==
    \/ a.st < b.st
    \/ a.st = b.st /\ a.sid[2] > b.sid[2]
    \/ a.st = b.st /\ a.sid[2] = b.sid[2] /\ a.sid[1] < b.sid[1]

QueuePush(q, j) ==
    LET k == Cardinality({i \in 1..Len(q) : ~Before(j, q[i])})
    IN  SubSeq(q, 1, k) \o <<j>> \o SubSeq(q, k + 1, Len(q))

QueueDelete(q, sid) == SelectSeq(q, LAMBDA j : j.sid # sid)

\* ------------------------------------------------ the guarded state
\* the state the verbs work on, as one record
Sys == [idx |-> workSpaceIndex, st |-> wsState, using |-> using,
        list |-> workSpaceList, q |-> queue, pop |-> poppedItem,
        ch |-> newQueuedWorkSpaceCh, stop |-> stopPlot]

SetSys(S) ==
    /\ workSpaceIndex' = S.idx
    /\ wsState' = S.st
    /\ using' = S.using
    /\ workSpaceList' = S.list
    /\ queue' = S.q
    /\ poppedItem' = S.pop
    /\ newQueuedWorkSpaceCh' = S.ch
    /\ stopPlot' = S.stop

\* result of a verb: the state it leaves, its error, and whether it got
\* there through a send on newQueuedWorkSpaceCh
Res(S, err, send) == [sys |-> S, err |-> err, send |-> send]

\* Exists with the test of ws.using left out
ExistsIgnoresUsing(S, sid) == sid \in S.idx[allState]

Exists(S, sid) == sid \in S.idx[allState] /\ S.using[sid]

useWorkSpace(S, sid) ==
    IF sid \in SeqToSet(S.list) THEN S
    ELSE [S EXCEPT !.list = Append(@, sid), !.using[sid] = TRUE]

disuseWorkSpace(S, sid) ==
    [S EXCEPT !.using[sid] = FALSE, !.list = deleteFromSlice(@, sid)]

addWorkSpaceToIndex(S, sid) ==
    IF sid \in S.idx[allState] THEN S
    ELSE [S EXCEPT !.idx[allState] = @ \cup {sid},
                   !.idx[S.st[sid]] = @ \cup {sid}]

\* MoveState with the Delete on the old index left out
MoveStateKeepsOld(S, sid, from, to) ==
    [S EXCEPT !.idx[to] = @ \cup {sid}, !.st[sid] = to]

\* move sid between two state indexes and set ws.state
MoveState(S, sid, from, to) ==
    [S EXCEPT !.idx[from] = @ \ {sid}, !.idx[to] = @ \cup {sid}, !.st[sid] = to]

\* -------------------------------------------------------------- verbs
\* the send on the handoff channel, once it goes through
ChanSend(ch, j) == Append(ch, j)

\* the branch of PlotWS/MineWS/StopWS for the plotting WorkSpace: the popped
\* item must be this sid's job; its wouldMining is overwritten
\* OnPopped that leaves the popped job's wouldMining as it is
OnPoppedKeepsWouldMining(S, sid, wouldMining, stop) ==
    IF S.pop.nil THEN Res(S, PanicNilPoppedItem, FALSE)
    ELSE IF S.pop.sid # sid THEN Res(S, ErrWorkSpaceIsNotPlotting, FALSE)
    ELSE Res([S EXCEPT !.stop = @ \/ stop], ErrNil, FALSE)

OnPopped(S, sid, wouldMining, stop) ==
    IF S.pop.nil THEN Res(S, PanicNilPoppedItem, FALSE)
    ELSE IF S.pop.sid # sid THEN Res(S, ErrWorkSpaceIsNotPlotting, FALSE)
    ELSE Res([S EXCEPT !.pop.wouldMining = wouldMining, !.stop = @ \/ stop], ErrNil, FALSE)

PlotWS(S, sid) ==
    IF ~Exists(S, sid) THEN Res(S, ErrWorkSpaceDoesNotExist, FALSE)
    ELSE IF sid \in S.idx[Registered]
        THEN Res([S EXCEPT !.ch = ChanSend(@, newQueuedWorkSpace(sid, FALSE))], ErrNil, TRUE)
    ELSE IF sid \in S.idx[Plotting] THEN OnPopped(S, sid, FALSE, FALSE)
    ELSE Res(S, ErrNil, FALSE)

\* MineWS with the ready branch filing the WorkSpace under Plotting
MineWSToPlotting(S, sid) ==
    IF ~Exists(S, sid) THEN Res(S, ErrWorkSpaceDoesNotExist, FALSE)
    ELSE IF sid \in S.idx[Registered]
        THEN Res([S EXCEPT !.ch = ChanSend(@, newQueuedWorkSpace(sid, TRUE))], ErrNil, TRUE)
    ELSE IF sid \in S.idx[Plotting] THEN OnPopped(S, sid, TRUE, FALSE)
    ELSE IF sid \in S.idx[Ready] THEN Res(MoveState(S, sid, Ready, Plotting), ErrNil, FALSE)
    ELSE Res(S, ErrNil, FALSE)

MineWS(S, sid) ==
    IF ~Exists(S, sid) THEN Res(S, ErrWorkSpaceDoesNotExist, FALSE)
    ELSE IF sid \in S.idx[Registered]
        THEN Res([S EXCEPT !.ch = ChanSend(@, newQueuedWorkSpace(sid, TRUE))], ErrNil, TRUE)
    ELSE IF sid \in S.idx[Plotting] THEN OnPopped(S, sid, TRUE, FALSE)
    ELSE IF sid \in S.idx[Ready] THEN Res(MoveState(S, sid, Ready, Mining), ErrNil, FALSE)
    ELSE Res(S, ErrNil, FALSE)

\* StopWS without the move of a mining WorkSpace to Ready
StopWSKeepsMining(S, sid) ==
    IF ~Exists(S, sid) THEN Res(S, ErrWorkSpaceDoesNotExist, FALSE)
    ELSE LET S1 == [S EXCEPT !.q = QueueDelete(@, sid)]
         IN  IF sid \in S1.idx[Plotting] THEN OnPopped(S1, sid, FALSE, TRUE)
             ELSE Res(S1, ErrNil, FALSE)

StopWS(S, sid) ==
    IF ~Exists(S, sid) THEN Res(S, ErrWorkSpaceDoesNotExist, FALSE)
    ELSE LET S1 == [S EXCEPT !.q = QueueDelete(@, sid)]
         IN  IF sid \in S1.idx[Plotting] THEN OnPopped(S1, sid, FALSE, TRUE)
             ELSE IF sid \in S1.idx[Mining]
                 THEN Res(MoveState(S1, sid, Mining, Ready), ErrNil, FALSE)
             ELSE Res(S1, ErrNil, FALSE)

\* IsStill with the lookup in Ready made in Mining
IsStillOrMining(S, sid) == sid \in S.idx[Registered] \/ sid \in S.idx[Mining]

\* RemoveWS/DeleteWS: only a registered or a ready WorkSpace is still
IsStill(S, sid) == sid \in S.idx[Registered] \/ sid \in S.idx[Ready]

RemoveWS(S, sid) ==
    IF ~Exists(S, sid) THEN Res(S, ErrWorkSpaceDoesNotExist, FALSE)
    ELSE LET S1 == [S EXCEPT !.q = QueueDelete(@, sid)]
         IN  IF ~IsStill(S1, sid) THEN Res(S1, ErrWorkSpaceIsNotStill, FALSE)
             ELSE Res(disuseWorkSpace(S1, sid), ErrNil, FALSE)

\* DeleteWS that takes the WorkSpace out of its state index only
DeleteWSKeepsAll(S, sid) ==
    IF ~Exists(S, sid) THEN Res(S, ErrWorkSpaceDoesNotExist, FALSE)
    ELSE LET S1 == [S EXCEPT !.q = QueueDelete(@, sid)]
         IN  IF ~IsStill(S1, sid) THEN Res(S1, ErrWorkSpaceIsNotStill, FALSE)
             ELSE LET S2 == [S1 EXCEPT !.idx[S1.st[sid]] = @ \ {sid}]
                  IN  Res(disuseWorkSpace(S2, sid), ErrNil, FALSE)

DeleteWS(S, sid) ==
    IF ~Exists(S, sid) THEN Res(S, ErrWorkSpaceDoesNotExist, FALSE)
    ELSE LET S1 == [S EXCEPT !.q = QueueDelete(@, sid)]
         IN  IF ~IsStill(S1, sid) THEN Res(S1, ErrWorkSpaceIsNotStill, FALSE)
             ELSE LET S2 == [S1 EXCEPT !.idx[S1.st[sid]] = @ \ {sid}]
                      S3 == [S2 EXCEPT !.idx[allState] = @ \ {sid}]
                  IN  Res(disuseWorkSpace(S3, sid), ErrNil, FALSE)

Verb(op, S, sid) ==
    CASE op = "Plot" -> PlotWS(S, sid)
      [] op = "Mine" -> MineWS(S, sid)
      [] op = "Stop" -> StopWS(S, sid)
      [] op = "Remove" -> RemoveWS(S, sid)
      [] op = "Delete" -> DeleteWS(S, sid)

Verbs == {"Plot", "Mine", "Stop", "Remove", "Delete"}

\* the error GetProof(sid, challenge) returns; the proof itself is the backend's
GetProof(S, sid) ==
    IF ~started THEN ErrSpaceKeeperIsNotRunning
    ELSE IF sid \in S.idx[allState] /\ S.using[sid] THEN ErrNil
    ELSE ErrWorkSpaceDoesNotExist

getWsByFlags(S, flags) == {sid \in SeqToSet(S.list) : S.st[sid] \in flags}

\* getProofs over the WorkSpaces wsMap: a SpaceID whose key is cached gives its
\* record at once, the others are computed by pool jobs that add their record
\* to proofCache; after the wait the cache is read again, and a job whose key
\* is no longer there (evicted) gives no record
getProofs(wsMap, cached, evicted) ==
    LET jobList == wsMap \ cached
    IN  (wsMap \cap cached) \cup (jobList \ evicted)

\* the SpaceIDs of the records GetProofs(flags, challenge) returns
GetProofs(S, flags, cached, evicted) ==
    IF ~started THEN [err |-> ErrSpaceKeeperIsNotRunning, sids |-> {}]
    ELSE [err |-> ErrNil, sids |-> getProofs(getWsByFlags(S, flags), cached, evicted)]

\* the error SignHash(sid, hash) returns, the wallet's signing taken to succeed
SignHash(S, sid) ==
    IF sid \in S.idx[allState] THEN ErrNil ELSE ErrWorkSpaceDoesNotExist

\* ActOnWorkSpace(sid, op) by thread t: PlotWS under the shared lock, the
\* others under the exclusive lock.  On the registered branch of Plot/Mine the
\* thread keeps the lock and goes on to the send.
ActOnWorkSpace(t, op, sid) ==
    LET r == Verb(op, Sys, sid) IN
    /\ thr[t].at = "idle"
    /\ IF op = "Plot" THEN CanRLock ELSE CanLock
    /\ IF r.send
         THEN /\ thr' = [thr EXCEPT ![t] = [Idle EXCEPT !.at = "send", !.op = op,
                            !.job = newQueuedWorkSpace(sid, op = "Mine")]]
              /\ stateLock' = IF op = "Plot"
                                THEN [stateLock EXCEPT !.readers = @ \cup {t}]
                                ELSE [stateLock EXCEPT !.writer = t]
              /\ UNCHANGED <<wsVars, qVars, stopPlot>>
         ELSE /\ SetSys(r.sys)
              /\ UNCHANGED <<thr, stateLock>>
    /\ UNCHANGED <<svcVars, cfgVars, plotter>>

\* sk.newQueuedWorkSpaceCh <- qws, then the deferred unlock and the return
Send(t) ==
    /\ thr[t].at = "send"
    /\ Len(newQueuedWorkSpaceCh) < plotterMaxChanSize
    /\ newQueuedWorkSpaceCh' = ChanSend(newQueuedWorkSpaceCh, thr[t].job)
    /\ stateLock' = Unlocked(t)
    /\ thr' = [thr EXCEPT ![t] = Idle]
    /\ UNCHANGED <<svcVars, cfgVars, wsVars, queue, poppedItem, plotter, stopPlot>>

\* ------------------------------------------------------ the plotter loop
\* case qws := <-sk.newQueuedWorkSpaceCh: push it with its priority of now
PlotterReceive ==
    /\ plotter = "loop"
    /\ newQueuedWorkSpaceCh # <<>>
    /\ Len(queue) < MaxQueue
    /\ queue' = QueuePush(queue, priority(Head(newQueuedWorkSpaceCh), wsState))
    /\ newQueuedWorkSpaceCh' = Tail(newQueuedWorkSpaceCh)
    /\ UNCHANGED <<svcVars, cfgVars, wsVars, poppedItem, stateLock, thr, plotter,
                   stopPlot>>

\* pop the best job; a registered WorkSpace goes to plotting and its plot
\* starts, a job for any other WorkSpace is dropped
PlotterPopSys(S) ==
    LET j == Head(S.q)
        S1 == [S EXCEPT !.q = Tail(@)]
    IN  IF j.sid \in S.idx[Registered]
          THEN [MoveState(S1, j.sid, Registered, Plotting) EXCEPT !.pop = j, !.stop = FALSE]
          ELSE S1

PlotterPop ==
    /\ plotter = "loop"
    /\ queue # <<>>
    /\ CanLock
    /\ SetSys(PlotterPopSys(Sys))
    /\ plotter' = IF Head(queue).sid \in workSpaceIndex[Registered] THEN "plotting" ELSE "loop"
    /\ UNCHANGED <<svcVars, cfgVars, stateLock, thr>>

\* the backend's plot returns: cancelled by StopPlot or failed -> registered;
\* done -> mining or ready by the job's wouldMining of now
\* the end of a run that does not look at the cancellation
PlotterEndSysIgnoresStop(S, ok) ==
    LET sid == S.pop.sid
        to == IF ~ok THEN Registered
              ELSE IF S.pop.wouldMining THEN Mining ELSE Ready
    IN  [MoveState(S, sid, Plotting, to) EXCEPT !.pop = Nil, !.stop = FALSE]

PlotterEndSys(S, ok) ==
    LET sid == S.pop.sid
        to == IF S.stop \/ ~ok THEN Registered
              ELSE IF S.pop.wouldMining THEN Mining ELSE Ready
    IN  [MoveState(S, sid, Plotting, to) EXCEPT !.pop = Nil, !.stop = FALSE]

PlotterEnd ==
    /\ plotter = "plotting"
    /\ CanLock
    /\ \E ok \in BOOLEAN : SetSys(PlotterEndSys(Sys, ok))
    /\ plotter' = "loop"
    /\ UNCHANGED <<svcVars, cfgVars, stateLock, thr>>

\* case <-sk.quit
PlotterExit ==
    /\ plotter = "loop"
    /\ quit
    /\ plotter' = "exited"
    /\ UNCHANGED <<svcVars, cfgVars, wsVars, qVars, stateLock, thr, stopPlot>>

\* ---------------------------------------------------------- the service
\* Start() with OnStart: a locked wallet refuses; else the loop is spawned.
\* A second start waits for the Stop before it (wg.Wait) to have returned.
OnStartErr(locked) == IF locked THEN ErrWalletIsLocked ELSE ErrNil

OnStart ==
    /\ ~started
    /\ plotter = "exited"
    /\ \E locked \in BOOLEAN :
         IF OnStartErr(locked) # ErrNil
           THEN UNCHANGED <<svcVars, plotter>>
           ELSE /\ started' = TRUE
                /\ plotter' = "loop"
    /\ UNCHANGED <<cfgVars, wsVars, qVars, stateLock, thr, stopPlot>>

\* Stop() with OnStop: close(sk.quit); the loop leaves at its next select
OnStop ==
    /\ started
    /\ started' = FALSE
    /\ UNCHANGED <<cfgVars, wsVars, qVars, stateLock, thr, plotter, stopPlot>>

\* ----------------------------------------------------------- ResetDBDirs
DirLists == UNION {[1..n -> Dirs] : n \in 0..MaxDirs}
\* the directories the keeper is given
SeedDirs == {<<"d1", "d2">>}

strSliceEqual(new, old) ==
    /\ Len(new) = Len(old)
    /\ \A i \in 1..Len(new) : new[i] \in SeqToSet(old)

\* generateInitialIndex: the plots the scan finds are indexed as registered
generateInitialIndex(S, found) ==
    [S EXCEPT !.idx[allState] = @ \cup found, !.idx[Registered] = @ \cup found]

ResetDBDirsErr(dirs) ==
    IF started THEN ErrSpaceKeeperIsRunning
    ELSE IF Len(dbDirs) = 0 THEN ErrNil
    ELSE IF ~strSliceEqual(dirs, dbDirs) THEN ErrSpaceKeeperChangeDBDirs
    ELSE ErrNil

\* a call on a seeded keeper changes nothing, whatever its argument
ResetDBDirs(t, dirs) ==
    /\ thr[t].at = "idle"
    /\ IF ~started /\ Len(dbDirs) = 0
         THEN /\ dbDirs' = dirs
              /\ \E found \in SUBSET (ExtSids \ workSpaceIndex[allState]) :
                    SetSys(generateInitialIndex(Sys, found))
         ELSE UNCHANGED <<dbDirs, wsVars, qVars, stopPlot>>
    /\ UNCHANGED <<svcVars, configuring, configured, allowGenerateNewSpace, nextOrdinal,
                   stateLock, thr, plotter>>

\* ------------------------------------------------------------- planners
\* what disk.Usage may report as free on the primary directory
DiskFree == {0, 64}

checkOSDiskSize(requiredBytes, free) ==
    IF requiredBytes < 0 THEN ErrInvalidRequiredBytes
    ELSE IF requiredBytes >= free THEN ErrOSDiskSizeNotEnough
    ELSE ErrNil

\* a set of SpaceIDs in the order a plotterQueue pops them
RECURSIVE SortSids(_, _)
SortSids(S, set) ==
    IF set = {} THEN <<>>
    ELSE LET J(x) == priority(newQueuedWorkSpace(x, FALSE), S.st)
             first == CHOOSE x \in set : \A y \in set \ {x} : Before(J(x), J(y))
         IN  <<first>> \o SortSids(S, set \ {first})

\* getIndexedWorkSpaces()[bl]
getIndexedWorkSpaces(S, bl) == SortSids(S, {x \in S.idx[allState] : x[2] = bl})

RECURSIVE SumSeq(_)
SumSeq(q) == IF q = <<>> THEN 0 ELSE Head(q) + SumSeq(Tail(q))

\* the queue rebuild of successfullyReturn: push every result, best first,
\* and use it; then Reset unless plotting or mining was asked for
RECURSIVE PushAndUse(_, _, _)
PushAndUse(S, sids, wouldMining) ==
    IF sids = <<>> THEN S
    ELSE LET qws == priority(newQueuedWorkSpace(Head(sids), wouldMining), S.st)
             S1 == [S EXCEPT !.q = QueuePush(@, qws)]
         IN  PushAndUse(useWorkSpace(S1, Head(sids)), Tail(sids), wouldMining)

\* a Reset that drops the popped item with the queued jobs
QueueResetDropsPopped(S) == [S EXCEPT !.q = <<>>, !.pop = Nil]

QueueReset(S) == [S EXCEPT !.q = <<>>]

ClearUsing(S) ==
    [S EXCEPT !.using = [x \in DOMAIN S.using |-> IF x \in SeqToSet(S.list) THEN FALSE ELSE @[x]]]

\* result of a planner body: the state, the error, configured, the wallet's
\* next ordinal
Plan(S, err, cfgd, ord) == [sys |-> S, err |-> err, configured |-> cfgd, ord |-> ord]

\* generateNewWorkSpace / generateNewWorkSpaceByPubKey + addWorkSpaceToIndex:
\* a new WorkSpace object is registered and not in use
NewWorkSpace(S, sid) ==
    IF sid \in S.idx[allState] THEN S
    ELSE addWorkSpaceToIndex([S EXCEPT !.st[sid] = Registered, !.using[sid] = FALSE], sid)

RECURSIVE NewWorkSpaces(_, _)
NewWorkSpaces(S, sids) ==
    IF sids = <<>> THEN S ELSE NewWorkSpaces(NewWorkSpace(S, Head(sids)), Tail(sids))

\* ConfigureByBitLength ---------------------------------------------------
BlCounts == UNION {[D -> 0..MaxCount] : D \in SUBSET TargetBLs}

\* how many of n indexed WorkSpaces the fill loop takes for a target count
FillCount(n, count) == IF count >= 0 /\ count <= n THEN count ELSE n

\* fillSpaceListByBitLength: [list, currentCount, finished]
fillSpaceListByBitLength(S, BlCount) ==
    LET src(bl) == getIndexedWorkSpaces(S, bl)
        cur == [bl \in DOMAIN BlCount |-> FillCount(Len(src(bl)), BlCount[bl])]
    IN  [list |-> UNION {SeqToSet(SubSeq(src(bl), 1, cur[bl])) : bl \in DOMAIN BlCount},
         currentCount |-> cur,
         finished |-> \A bl \in DOMAIN BlCount : src(bl) # <<>> /\ cur[bl] = BlCount[bl]]

\* n copies of x
RECURSIVE Repeat(_, _)
Repeat(x, n) == IF n <= 0 THEN <<>> ELSE <<x>> \o Repeat(x, n - 1)

\* the loop 'for { if currentCount[bl] == count { break }; generate }' for one
\* bitLength, with a wallet that has fuel keys left: the bitLengths created,
\* and whether the loop has come to its break
RECURSIVE GenerateLoop(_, _, _, _)
GenerateLoop(bl, cur, count, fuel) ==
    IF cur = count THEN [bls |-> <<>>, done |-> TRUE]
    ELSE IF fuel = 0 THEN [bls |-> <<>>, done |-> FALSE]
    ELSE LET r == GenerateLoop(bl, cur + 1, count, fuel - 1)
         IN  [bls |-> <<bl>> \o r.bls, done |-> r.done]

\* the loops of generateFillSpaceListByBitLength over the map, in order
RECURSIVE GenerateOrder(_, _, _, _)
GenerateOrder(order, cur, BlCount, fuel) ==
    IF order = <<>> THEN [bls |-> <<>>, done |-> TRUE]
    ELSE LET g == GenerateLoop(Head(order), cur[Head(order)], BlCount[Head(order)], fuel)
             r == GenerateOrder(Tail(order), cur, BlCount, fuel - Len(g.bls))
         IN  IF g.done THEN [bls |-> g.bls \o r.bls, done |-> r.done]
             ELSE [bls |-> g.bls, done |-> FALSE]

NewSids(bls, ord) == [i \in 1..Len(bls) |-> <<ord + i - 1, bls[i]>>]

\* the wallet's keys are bounded: a plan that needs more is not taken
FitsIn(bls, ord, maxOrd) == ord + Len(bls) - 1 <= maxOrd
OutOfKeysIn(S, maxOrd) == Plan(S, "", 0, maxOrd + 2)

successfullyReturnByBitLength(S, result, execPlot, execMine, ord) ==
    IF result = {} THEN Plan(S, ErrSpaceKeeperConfiguredNothing, 0, ord)
    ELSE LET S1 == [ClearUsing(S) EXCEPT !.list = <<>>]
             S2 == PushAndUse(S1, SortSids(S1, result), execMine)
             S3 == IF ~(execMine \/ execPlot) THEN QueueReset(S2) ELSE S2
         IN  Plan(S3, ErrNil, 1, ord)

\* the body of ConfigureByBitLength; order is the iteration order of the map
\* requiredOSDiskSize += (target - currentCount[bl]) * BitLengthDiskSize[bl]
requiredOSDiskSize(order, cur, BlCount) ==
    SumSeq([i \in 1..Len(order) |->
               (BlCount[order[i]] - cur[order[i]]) * BitLengthDiskSize(order[i])])

ByBitLengthBody(S, BlCount, execPlot, execMine, order, free, allow, ord, maxOrd) ==
    LET f == fillSpaceListByBitLength(S, BlCount)
        required == requiredOSDiskSize(order, f.currentCount, BlCount)
        g == GenerateOrder(order, f.currentCount, BlCount, maxOrd - ord + 1)
        new == NewSids(g.bls, ord)
    IN  IF f.finished THEN successfullyReturnByBitLength(S, f.list, execPlot, execMine, ord)
        ELSE IF ~allow THEN Plan(S, ErrWorkSpaceCannotGenerate, 0, ord)
        ELSE IF checkOSDiskSize(required, free) # ErrNil
            THEN Plan(S, checkOSDiskSize(required, free), 0, ord)
        ELSE IF ~g.done THEN OutOfKeysIn(S, maxOrd)
        ELSE successfullyReturnByBitLength(NewWorkSpaces(S, new),
                 f.list \cup SeqToSet(new), execPlot, execMine, ord + Len(new))

ByBitLength(S, BlCount, execPlot, execMine, order, free, allow, ord) ==
    ByBitLengthBody(S, BlCount, execPlot, execMine, order, free, allow, ord, MaxOrdinal)

\* ConfigureBySize -------------------------------------------------------
ErrWalletUnlock == "wallet.Unlock error"
SizeTargets == 0..MaxSize
Descending == <<usableBitLength[3], usableBitLength[2], usableBitLength[1]>>

\* fillSpaceListBySize over the bitLengths bls, largest first: a WorkSpace
\* is taken unless it would overshoot
RECURSIVE FillBySize(_, _, _, _)
FillBySize(S, bls, currentSize, targetSize) ==
    IF bls = <<>> THEN [list |-> {}, currentSize |-> currentSize]
    ELSE LET src == getIndexedWorkSpaces(S, Head(bls))
             size == BitLengthDiskSize(Head(bls))
             fit == (targetSize - currentSize) \div size
             k == IF fit < Len(src) THEN fit ELSE Len(src)
             rest == FillBySize(S, Tail(bls), currentSize + k * size, targetSize)
         IN  [list |-> SeqToSet(SubSeq(src, 1, k)) \cup rest.list,
              currentSize |-> rest.currentSize]

\* fillSpaceListBySize that reports the target met whatever is left
fillSpaceListBySizeFinished(S, targetSize) ==
    LET f == FillBySize(S, Descending, 0, targetSize)
    IN  [list |-> f.list, currentSize |-> f.currentSize, finished |-> TRUE]

fillSpaceListBySize(S, targetSize) ==
    LET f == FillBySize(S, Descending, 0, targetSize)
    IN  [list |-> f.list, currentSize |-> f.currentSize,
         finished |-> \/ f.currentSize = targetSize
                      \/ targetSize - f.currentSize < MinDiskSize]

\* the bitLengths generateFillSpaceListBySize creates, largest first
RECURSIVE GenerateBySize(_, _, _)
GenerateBySize(bls, currentSize, targetSize) ==
    IF bls = <<>> THEN <<>>
    ELSE LET size == BitLengthDiskSize(Head(bls))
             k == (targetSize - currentSize) \div size
         IN  Repeat(Head(bls), k)
                \o GenerateBySize(Tail(bls), currentSize + k * size, targetSize)

successfullyReturnBySize(S, result, ord) ==
    IF result = {} THEN Plan(S, ErrSpaceKeeperConfiguredNothing, 0, ord)
    ELSE LET S1 == [ClearUsing(QueueReset(S)) EXCEPT !.list = <<>>]
             S2 == PushAndUse(S1, SortSids(S1, result), FALSE)
         IN  Plan(QueueReset(S2), ErrNil, 1, ord)

\* the body of ConfigureBySize with a wallet of maxOrd keys
BySizeBody(S, targetSize, unlocked, free, allow, ord, maxOrd) ==
    LET f == fillSpaceListBySize(S, targetSize)
        bls == GenerateBySize(Descending, f.currentSize, targetSize)
        new == NewSids(bls, ord)
    IN  IF targetSize < BitLengthDiskSize(usableBitLength[1])
            THEN Plan(S, ErrConfigUnderSizeTarget, 0, ord)
        ELSE IF ~unlocked THEN Plan(S, ErrWalletUnlock, 0, ord)
        ELSE IF f.finished THEN successfullyReturnBySize(S, f.list, ord)
        ELSE IF ~allow THEN Plan(S, ErrWorkSpaceCannotGenerate, 0, ord)
        ELSE IF checkOSDiskSize(targetSize - f.currentSize, free) # ErrNil
            THEN Plan(S, checkOSDiskSize(targetSize - f.currentSize, free), 0, ord)
        ELSE IF ~FitsIn(bls, ord, maxOrd) THEN OutOfKeysIn(S, maxOrd)
        ELSE successfullyReturnBySize(NewWorkSpaces(S, new),
                 f.list \cup SeqToSet(new), ord + Len(new))

BySize(S, targetSize, unlocked, free, allow, ord) ==
    BySizeBody(S, targetSize, unlocked, free, allow, ord, MaxOrdinal)

\* ConfigureByPubKey -----------------------------------------------------
\* the caller names SpaceIDs that are indexed or that of the plot on disk
PubKeyTargets(S) == SUBSET (S.idx[allState] \cup ExtSids)

successfullyReturnByPubKey(S, result, target, execPlot, execMine, ord) ==
    IF Cardinality(result) # Cardinality(target)
        THEN Plan(S, ErrSpaceKeeperConfiguredNothing, 0, ord)
    ELSE LET S1 == [S EXCEPT !.list = <<>>]
             S2 == PushAndUse(S1, SortSids(S1, result), execMine)
             S3 == IF ~(execMine \/ execPlot) THEN QueueReset(S2) ELSE S2
         IN  Plan(S3, ErrNil, 1, ord)

ByPubKey(S, target, execPlot, execMine, free, ord) ==
    LET new == SortSids(S, target \ S.idx[allState])
        required == SumSeq([i \in 1..Len(new) |-> BitLengthDiskSize(new[i][2])])
    IN  IF checkOSDiskSize(required, free) # ErrNil
            THEN Plan(S, checkOSDiskSize(required, free), 0, ord)
        ELSE successfullyReturnByPubKey(NewWorkSpaces(S, new), target,
                 target, execPlot, execMine, ord)

\* ConfigureByFlags ------------------------------------------------------
ByFlags(S, flags, execPlot, execMine, ord) ==
    LET items == UNION {S.idx[st] : st \in flags}
        S1 == [S EXCEPT !.list = <<>>]
        S2 == PushAndUse(S1, SortSids(S1, items), TRUE)
        S3 == IF ~(execMine \/ execPlot) THEN QueueReset(S2) ELSE S2
    IN  Plan(S3, ErrNil, IF Len(S3.list) = 0 THEN 1 ELSE 0, ord)

\* the planner calls -----------------------------------------------------
Planners == {"ByBitLength", "BySize", "ByPubKey", "ByFlags"}
Orders(D) == {o \in [1..Cardinality(D) -> D] : \A i, j \in DOMAIN o : i # j => o[i] # o[j]}

\* entry: Started(), the compare-and-swap of configuring, configured = 0.
\* All planners but ConfigureByFlags read dbDirs[0]: they are called on a
\* keeper whose directories are set.
\* the entry guards without the compare-and-swap of configuring
ConfigureEntryErrNoSwap == IF started THEN ErrSpaceKeeperIsRunning ELSE ErrNil

ConfigureEntryErr ==
    IF started THEN ErrSpaceKeeperIsRunning
    ELSE IF configuring # 0 THEN ErrSpaceKeeperIsConfiguring
    ELSE ErrNil

\* the entry with the store of 0 into configured left out
ConfiguredAfterEntryKept == configured

\* configured after the entry: a refused call returns before the store of 0
ConfiguredAfterEntry == IF ConfigureEntryErr # ErrNil THEN configured ELSE 0

ConfigureEntry(t, kind) ==
    /\ thr[t].at = "idle"
    /\ kind # "ByFlags" => Len(dbDirs) > 0
    /\ configured' = ConfiguredAfterEntry
    /\ IF ConfigureEntryErr # ErrNil
         THEN UNCHANGED <<configuring, thr>>
         ELSE /\ configuring' = 1
              /\ thr' = [thr EXCEPT ![t] = [Idle EXCEPT !.at = "cfg", !.op = kind]]
    /\ UNCHANGED <<svcVars, allowGenerateNewSpace, dbDirs, nextOrdinal, wsVars, qVars,
                   stateLock, plotter, stopPlot>>

\* the body, with no lock: r is its result on the state of now; then the
\* deferred atomic.StoreInt32(&sk.configuring, 0) and the return
ConfigureDoIn(t, r, maxOrd) ==
    /\ r.ord <= maxOrd + 1
    /\ Len(r.sys.q) <= MaxQueue
    /\ SetSys(r.sys)
    /\ configured' = IF r.configured = 1 THEN 1 ELSE configured
    /\ nextOrdinal' = r.ord
    /\ configuring' = 0
    /\ thr' = [thr EXCEPT ![t] = Idle]
    /\ UNCHANGED <<svcVars, allowGenerateNewSpace, dbDirs, stateLock, plotter>>

ConfigureDo(t, r) == ConfigureDoIn(t, r, MaxOrdinal)

ConfigureByBitLength(t) ==
    /\ thr[t].at = "cfg" /\ thr[t].op = "ByBitLength"
    /\ \E BlCount \in BlCounts, execPlot, execMine \in BOOLEAN, free \in DiskFree :
         \E order \in Orders(DOMAIN BlCount) :
            ConfigureDo(t, ByBitLength(Sys, BlCount, execPlot, execMine, order, free,
                                       allowGenerateNewSpace, nextOrdinal))

ConfigureBySize(t) ==
    /\ thr[t].at = "cfg" /\ thr[t].op = "BySize"
    /\ \E targetSize \in SizeTargets, unlocked \in BOOLEAN, free \in DiskFree :
            ConfigureDo(t, BySize(Sys, targetSize, unlocked, free,
                                  allowGenerateNewSpace, nextOrdinal))

ConfigureByPubKey(t) ==
    /\ thr[t].at = "cfg" /\ thr[t].op = "ByPubKey"
    /\ \E target \in PubKeyTargets(Sys), execPlot, execMine \in BOOLEAN, free \in DiskFree :
            ConfigureDo(t, ByPubKey(Sys, target, execPlot, execMine, free, nextOrdinal))

ConfigureByFlags(t) ==
    /\ thr[t].at = "cfg" /\ thr[t].op = "ByFlags"
    /\ \E flags \in SUBSET States, execPlot, execMine \in BOOLEAN :
            ConfigureDo(t, ByFlags(Sys, flags, execPlot, execMine, nextOrdinal))

\* ---------------------------------------------------------- specification
Next ==
    \/ \E t \in Threads, op \in Verbs, sid \in Sids : ActOnWorkSpace(t, op, sid)
    \/ \E t \in Threads : Send(t)
    \/ \E t \in Threads, dirs \in SeedDirs : ResetDBDirs(t, dirs)
    \/ \E t \in Threads, kind \in Planners : ConfigureEntry(t, kind)
    \/ \E t \in Threads : ConfigureByBitLength(t)
    \/ \E t \in Threads : ConfigureBySize(t)
    \/ \E t \in Threads : ConfigureByPubKey(t)
    \/ \E t \in Threads : ConfigureByFlags(t)
    \/ PlotterReceive
    \/ PlotterPop
    \/ PlotterEnd
    \/ PlotterExit
    \/ OnStart
    \/ OnStop

Spec == Init /\ [][Next]_vars

\* a keeper that is never started: no plotter loop consumes the channel.  A
\* send that can go through does (the Go scheduler runs a runnable goroutine);
\* nothing obliges the callers to make further calls.
NextStopped ==
    \/ \E t \in Threads, op \in Verbs, sid \in Sids : ActOnWorkSpace(t, op, sid)
    \/ \E t \in Threads : Send(t)
    \/ \E t \in Threads, dirs \in SeedDirs : ResetDBDirs(t, dirs)
    \/ \E t \in Threads, kind \in Planners : ConfigureEntry(t, kind)
    \/ \E t \in Threads : ConfigureByBitLength(t)
    \/ \E t \in Threads : ConfigureBySize(t)
    \/ \E t \in Threads : ConfigureByPubKey(t)
    \/ \E t \in Threads : ConfigureByFlags(t)

StoppedSpec ==
    /\ Init
    /\ [][NextStopped]_vars
    /\ \A t \in Threads : WF_vars(Send(t))

\* the backend's plot returns done: PlotterEnd with no failure of the backend
PlotterEndDone ==
    /\ plotter = "plotting"
    /\ CanLock
    /\ SetSys(PlotterEndSys(Sys, TRUE))
    /\ plotter' = "loop"
    /\ UNCHANGED <<svcVars, cfgVars, stateLock, thr>>

\* the jobs on their way to the plotter: in the channel, in the queue, or in
\* the hand of a caller about to send
Pending == Len(newQueuedWorkSpaceCh) + Len(queue)
             + Cardinality({t \in Threads : thr[t].at = "send"})

\* A keeper that is configured by bit-length, started once every planner call
\* has returned and never stopped, on which the only verb called is Plot,
\* with a backend whose plots all succeed.  Callers stop calling while
\* MaxQueue + MaxChan jobs are on their way.  Fairness: a send or a planner body that can run does (the Go
\* scheduler); the loop's receive is weakly fair; its steps under
\* stateLock.Lock() are strongly fair, sync.RWMutex holding new readers back
\* once a writer waits.
NextPlotting ==
    \/ \E t \in Threads, dirs \in SeedDirs : ResetDBDirs(t, dirs)
    \/ \E t \in Threads : ConfigureEntry(t, "ByBitLength")
    \/ \E t \in Threads : ConfigureByBitLength(t)
    \/ (\A t \in Threads : thr[t].at = "idle") /\ OnStart
    \/ \E t \in Threads, sid \in Sids :
          started /\ Pending < MaxQueue + MaxChan /\ ActOnWorkSpace(t, "Plot", sid)
    \/ \E t \in Threads : Send(t)
    \/ PlotterReceive
    \/ PlotterPop
    \/ PlotterEndDone

PlottingSpec ==
    /\ Init
    /\ [][NextPlotting]_vars
    /\ \A t \in Threads : WF_vars(Send(t)) /\ WF_vars(ConfigureByBitLength(t))
    /\ WF_vars(PlotterReceive)
    /\ SF_vars(PlotterPop)
    /\ SF_vars(PlotterEndDone)

\* ConfigureBySize on a stopped keeper whose first scan found plots of the
\* three bitLengths, made with the wallet's first keys; sizes are in units of
\* the smallest plot.
FoundSids == (1..MaxFound) \X SeqToSet(usableBitLength)
WideSids == (1..MaxWideOrdinal) \X SeqToSet(usableBitLength)
WideTargets == 0..MaxWideSize

InitSize ==
    /\ started = FALSE
    /\ configuring = 0
    /\ configured = 0
    /\ allowGenerateNewSpace \in BOOLEAN
    /\ dbDirs \in SeedDirs
    /\ nextOrdinal = MaxFound + 1
    /\ \E found \in SUBSET FoundSids :
          workSpaceIndex = generateInitialIndex([idx |-> [k \in IndexKeys |-> {}]], found).idx
    /\ wsState = [s \in WideSids |-> Registered]
    /\ using = [s \in WideSids |-> FALSE]
    /\ workSpaceList = <<>>
    /\ queue = <<>>
    /\ poppedItem = Nil
    /\ newQueuedWorkSpaceCh = <<>>
    /\ stateLock = [writer |-> 0, readers |-> {}]
    /\ thr = [t \in Threads |-> Idle]
    /\ plotter = "exited"
    /\ stopPlot = FALSE

ConfigureBySizeWide(t) ==
    /\ thr[t].at = "cfg" /\ thr[t].op = "BySize"
    /\ \E targetSize \in WideTargets, unlocked \in BOOLEAN, free \in DiskFree :
            ConfigureDoIn(t, BySizeBody(Sys, targetSize, unlocked, free,
                                        allowGenerateNewSpace, nextOrdinal, MaxWideOrdinal),
                          MaxWideOrdinal)

NextSize ==
    \/ \E t \in Threads : ConfigureEntry(t, "BySize")
    \/ \E t \in Threads : ConfigureBySizeWide(t)

SizeSpec == InitSize /\ [][NextSize]_vars

\* ConfigureByBitLength on the same keeper, with target maps over two
\* bitLengths whose counts may be negative
WideBLs == {24, 26}
WideBlCounts == UNION {[D -> (-1)..MaxWideCount] : D \in SUBSET WideBLs}

ConfigureByBitLengthWide(t) ==
    /\ thr[t].at = "cfg" /\ thr[t].op = "ByBitLength"
    /\ \E BlCount \in WideBlCounts, execPlot, execMine \in BOOLEAN, free \in DiskFree :
         \E order \in Orders(DOMAIN BlCount) :
            ConfigureDoIn(t, ByBitLengthBody(Sys, BlCount, execPlot, execMine, order, free,
                                             allowGenerateNewSpace, nextOrdinal,
                                             MaxWideOrdinal),
                          MaxWideOrdinal)

NextCount ==
    \/ \E t \in Threads : ConfigureEntry(t, "ByBitLength")
    \/ \E t \in Threads : ConfigureByBitLengthWide(t)

CountSpec == InitSize /\ [][NextCount]_vars

TypeOK ==
    /\ started \in BOOLEAN
    /\ configuring \in {0, 1}
    /\ configured \in {0, 1}
    /\ nextOrdinal \in 1..(MaxOrdinal + 1)
    /\ Len(newQueuedWorkSpaceCh) <= plotterMaxChanSize
    /\ Len(queue) <= MaxQueue
    /\ plotter \in {"exited", "loop", "plotting"}

\* ================================================================ claims
\* C1: after every public operation has returned, a WorkSpace has using =
\* true if and only if it is in workSpaceList, and workSpaceList holds no
\* SpaceID twice.
C1_UsingIffListed ==
    /\ \A s \in Sids : using[s] <=> s \in SeqToSet(workSpaceList)
    /\ \A i, j \in 1..Len(workSpaceList) : workSpaceList[i] = workSpaceList[j] => i = j

C3_OnePlotting == Cardinality(workSpaceIndex[Plotting]) <= 1

\* a plot is in flight while a job for another, registered, WorkSpace waits
C3_PlottingWithPendingJob ==
    \E s \in workSpaceIndex[Plotting] :
        \E i \in 1..Len(queue) :
            queue[i].sid # s /\ queue[i].sid \in workSpaceIndex[Registered]

\* C4: a Plot or Mine that has reached its send on the handoff channel,
\* holding stateLock, always gets to complete the send and return.
C4_SendCompletes ==
    \A t \in Threads : (thr[t].at = "send") ~> (thr[t].at = "idle")

\* C5: a public operation that is about to read or write workSpaceList or the
\* indexes holds stateLock, and these are never changed while another
\* caller holds the lock.
C5_LockDiscipline ==
    /\ [](\A t \in Threads : thr[t].at \in {"cfg", "send"} => HoldsLock(t))
    /\ [][wsVars' # wsVars => (stateLock.writer = 0 /\ stateLock.readers = {})]_vars

\* C6: Plot on a ready or mining WorkSpace changes nothing, and Plot applied
\* twice in succession leaves what Plot applied once leaves.
C6_PlotIdempotent ==
    \A sid \in Sids :
        Exists(Sys, sid) =>
            /\ sid \in workSpaceIndex[Ready] \cup workSpaceIndex[Mining]
                  => PlotWS(Sys, sid).sys = Sys
            /\ PlotWS(PlotWS(Sys, sid).sys, sid).sys = PlotWS(Sys, sid).sys

\* C7: on a stopped keeper with its directories set and room on the disk,
\* ConfigureByPubKey with an empty map, and ConfigureByBitLength with an
\* empty or all-zero map, return ErrSpaceKeeperConfiguredNothing and leave
\* configured at 0.
C7_EmptyTargetConfiguresNothing ==
    (~started /\ configuring = 0 /\ Len(dbDirs) > 0) =>
        \A execPlot, execMine \in BOOLEAN, free \in DiskFree \ {0} :
            /\ LET r == ByPubKey(Sys, {}, execPlot, execMine, free, nextOrdinal)
               IN  r.err = ErrSpaceKeeperConfiguredNothing /\ r.configured = 0
            /\ \A BlCount \in {b \in BlCounts : \A bl \in DOMAIN b : b[bl] = 0} :
                 \A order \in Orders(DOMAIN BlCount) :
                   LET r == ByBitLength(Sys, BlCount, execPlot, execMine, order, free,
                                        allowGenerateNewSpace, nextOrdinal)
                   IN  r.err = ErrSpaceKeeperConfiguredNothing /\ r.configured = 0

Count(q, x) == Cardinality({i \in 1..Len(q) : q[i] = x})
IsPermutation(a, b) == Len(a) = Len(b) /\ \A x \in Dirs : Count(a, x) = Count(b, x)

\* C8: once seeded and while stopped, ResetDBDirs(dirs) returns nil exactly
\* when dirs is a permutation of dbDirs and ErrSpaceKeeperChangeDBDirs
\* otherwise; and dbDirs never changes once it is seeded.
C8_PermutationOnly ==
    /\ []((~started /\ Len(dbDirs) > 0) =>
            \A dirs \in DirLists :
                ResetDBDirsErr(dirs) = IF IsPermutation(dirs, dbDirs)
                                         THEN ErrNil ELSE ErrSpaceKeeperChangeDBDirs)
    /\ [][Len(dbDirs) > 0 => dbDirs' = dbDirs]_vars

\* C9: when Stop on the plotting WorkSpace returns nil, a Delete of the same
\* SpaceID made next does not return ErrWorkSpaceIsNotStill and takes the
\* WorkSpace out of the All index and out of its state index.
C9_DeleteAfterStop ==
    \A sid \in Sids :
        (Exists(Sys, sid) /\ sid \in workSpaceIndex[Plotting]
            /\ StopWS(Sys, sid).err = ErrNil) =>
                LET r == DeleteWS(StopWS(Sys, sid).sys, sid)
                IN  /\ r.err # ErrWorkSpaceIsNotStill
                    /\ \A k \in IndexKeys : sid \notin r.sys.idx[k]

C11_AbsentChangesNothing ==
    \A sid \in Sids, op \in Verbs :
        (sid \notin workSpaceIndex[allState] \/ ~using[sid]) =>
            LET r == Verb(op, Sys, sid)
            IN  r.err = ErrWorkSpaceDoesNotExist /\ r.sys = Sys /\ ~r.send

\* an indexed WorkSpace taken out of use while a job for it waits in the
\* channel, beside a SpaceID that is not indexed at all
C11_UnusedWithPendingJob ==
    /\ \E sid \in workSpaceIndex[allState] :
          /\ ~using[sid]
          /\ \E i \in 1..Len(newQueuedWorkSpaceCh) : newQueuedWorkSpaceCh[i].sid = sid
    /\ \E sid \in Sids : sid \notin workSpaceIndex[allState]

\* sid is in no index and not in workSpaceList
Gone(S, sid) ==
    /\ \A k \in IndexKeys : sid \notin S.idx[k]
    /\ \A i \in 1..Len(S.list) : S.list[i] # sid

\* the five verbs and SignHash on sid return ErrWorkSpaceDoesNotExist
RefusedAsAbsent(S, sid) ==
    /\ \A op \in Verbs : Verb(op, S, sid).err = ErrWorkSpaceDoesNotExist
    /\ SignHash(S, sid) = ErrWorkSpaceDoesNotExist

C13_MineStopRoundTrip ==
    \A sid \in Sids :
        (Exists(Sys, sid) /\ sid \in workSpaceIndex[Ready]) =>
            LET r1 == MineWS(Sys, sid)
                r2 == StopWS(r1.sys, sid)
                r3 == StopWS(r2.sys, sid)
            IN  /\ r1.err = ErrNil /\ r2.err = ErrNil
                /\ sid \in r1.sys.idx[Mining]
                /\ r2.sys.idx = workSpaceIndex
                /\ r2.sys.st = wsState
                /\ r2.sys.using = using
                /\ r2.sys.list = workSpaceList
                /\ r2.sys.q = queue
                /\ r3.sys = r2.sys

\* C13 amended: for a WorkSpace in use and Ready, Mine and then Stop both
\* succeed and bring it back to Ready with the indexes, the states, the using
\* flags, workSpaceList, the popped item and the channel as they were before
\* the Mine, and with the queue as it was less the jobs of that SpaceID; a
\* second Stop changes nothing.
C13_MineStopDropsJob ==
    \A sid \in Sids :
        (Exists(Sys, sid) /\ sid \in workSpaceIndex[Ready]) =>
            LET r1 == MineWS(Sys, sid)
                r2 == StopWS(r1.sys, sid)
                r3 == StopWS(r2.sys, sid)
            IN  /\ r1.err = ErrNil /\ r2.err = ErrNil /\ r3.err = ErrNil
                /\ ~r1.send /\ ~r2.send /\ ~r3.send
                /\ sid \in r1.sys.idx[Mining]
                /\ r2.sys = [Sys EXCEPT !.q = QueueDelete(@, sid)]
                /\ r3.sys = r2.sys

\* a Ready WorkSpace in use that has a job waiting in the queue
C13_ReadyWithQueuedJob ==
    \E sid \in workSpaceIndex[Ready] :
        /\ using[sid]
        /\ \E i \in 1..Len(queue) : queue[i].sid = sid

\* the WorkSpaces in use whose state is one of flags
UsingByFlags(flags) ==
    {sid \in workSpaceIndex[allState] : using[sid] /\ wsState[sid] \in flags}

\* C14: with the service started, GetProofs(flags, challenge) returns a record
\* for exactly the WorkSpaces in use whose state matches flags, whatever is in
\* the proof cache at the call and whatever the cache evicts before the
\* records are collected.
C14_ExactProofSet ==
    started =>
        \A flags \in SUBSET States, cached \in SUBSET Sids, evicted \in SUBSET Sids :
            LET r == GetProofs(Sys, flags, cached, evicted)
            IN  r.err = ErrNil /\ r.sids = UsingByFlags(flags)

\* the results the body of planner kind can return in the state of now
Plans(kind) ==
    CASE kind = "ByBitLength" ->
           UNION {{ByBitLength(Sys, BlCount, y[1], y[2], y[3], y[4],
                               allowGenerateNewSpace, nextOrdinal) :
                      y \in BOOLEAN \X BOOLEAN \X Orders(DOMAIN BlCount) \X DiskFree} :
                  BlCount \in BlCounts}
      [] kind = "BySize" ->
           {BySize(Sys, y[1], y[2], y[3], allowGenerateNewSpace, nextOrdinal) :
              y \in SizeTargets \X BOOLEAN \X DiskFree}
      [] kind = "ByPubKey" ->
           {ByPubKey(Sys, y[1], y[2], y[3], y[4], nextOrdinal) :
              y \in PubKeyTargets(Sys) \X BOOLEAN \X BOOLEAN \X DiskFree}
      [] kind = "ByFlags" ->
           {ByFlags(Sys, y[1], y[2], y[3], nextOrdinal) :
              y \in (SUBSET States) \X BOOLEAN \X BOOLEAN}

\* C15 as stated: configured is 0 while a planner call is past its entry
\* guards, a body that returns an error leaves it 0, and so does a call that
\* the entry guards refuse.
C15_ErrorLeavesUnconfigured ==
    /\ \A t \in Threads : thr[t].at = "cfg" =>
          /\ configured = 0
          /\ \A r \in Plans(thr[t].op) : r.err # ErrNil => r.configured = 0
    /\ ConfigureEntryErr # ErrNil => ConfiguredAfterEntry = 0

\* C15 amended: configured is 0 while a planner call is past its entry guards,
\* a body that returns an error leaves it 0 and a body stores 1 only when it
\* returns nil; a call that the entry guards refuse leaves configured as it
\* was, 0 or 1.
C15_BodyErrorLeavesUnconfigured ==
    /\ \A t \in Threads : thr[t].at = "cfg" =>
          /\ configured = 0
          /\ \A r \in Plans(thr[t].op) :
                /\ r.configured \in {0, 1}
                /\ r.err # ErrNil => r.configured = 0
    /\ ConfigureEntryErr # ErrNil => ConfiguredAfterEntry = configured
    /\ ConfigureEntryErr = ErrNil => ConfiguredAfterEntry = 0

\* a planner past its entry guards on a keeper that has WorkSpaces in use, with
\* an input on which its body fails and one on which it stores configured = 1
C15_BodyCanFailOrSucceed ==
    \E t \in Threads :
        /\ thr[t].at = "cfg"
        /\ \E sid \in Sids : using[sid]
        /\ \E r \in Plans(thr[t].op) : r.err # ErrNil
        /\ \E r \in Plans(thr[t].op) : r.err = ErrNil /\ r.configured = 1

\* C16: a planner call made on a started keeper is refused with
\* ErrSpaceKeeperIsRunning and leaves configured as it was, and while the
\* keeper is started no planner body changes workSpaceList or the queue, a
\* start between the entry guards and the body included.
C16_PlannerOnlyWhenStopped ==
    /\ started => (ConfigureEntryErr = ErrSpaceKeeperIsRunning
                    /\ ConfiguredAfterEntry = configured)
    /\ \A t \in Threads : (thr[t].at = "cfg" /\ started) =>
          \A r \in Plans(thr[t].op) :
              r.sys.list = workSpaceList /\ r.sys.q = queue

\* the threads between the compare-and-swap of configuring and the return
InBody == {t \in Threads : thr[t].at = "cfg"}

C18_StoppedRunEndsRegistered ==
    /\ [](\A sid \in workSpaceIndex[Plotting] :
            StopWS(Sys, sid).err = ErrNil =>
                LET S2 == StopWS(Sys, sid).sys
                IN  \A S3 \in {S2, PlotWS(S2, sid).sys, MineWS(S2, sid).sys}, ok \in BOOLEAN :
                        LET E == PlotterEndSys(S3, ok)
                        IN  /\ S3.stop
                            /\ sid \in E.idx[Registered]
                            /\ sid \notin E.idx[Plotting] \cup E.idx[Ready] \cup E.idx[Mining])
    /\ [][(stopPlot /\ ~poppedItem.nil) =>
            \/ /\ stopPlot' /\ poppedItem'.sid = poppedItem.sid
               /\ poppedItem.sid \in workSpaceIndex'[Plotting]
            \/ /\ poppedItem'.nil
               /\ poppedItem.sid \in workSpaceIndex'[Registered]]_vars

\* a plot in flight that has been stopped and whose job has since been told,
\* by Mine, to land in Mining
C18_StoppedThenMine ==
    /\ plotter = "plotting"
    /\ stopPlot
    /\ ~poppedItem.nil
    /\ poppedItem.wouldMining
    /\ poppedItem.sid \in workSpaceIndex[Plotting]

\* C19: after Stop has returned nil on a Registered WorkSpace in use, the
\* WorkSpace is still Registered and no job for it is left in the queue or in
\* the channel, so that the plotter loop has nothing to start for it.
C19_StopClearsPendingJob ==
    \A sid \in workSpaceIndex[Registered] :
        (Exists(Sys, sid) /\ StopWS(Sys, sid).err = ErrNil) =>
            LET S2 == StopWS(Sys, sid).sys
            IN  /\ sid \in S2.idx[Registered]
                /\ \A i \in 1..Len(S2.q) : S2.q[i].sid # sid
                /\ \A i \in 1..Len(S2.ch) : S2.ch[i].sid # sid

\* where the WorkSpace of the run in flight is after the run has ended in S
Landing(S, sid) == CHOOSE k \in States : sid \in S.idx[k]

\* C20: a run in flight that has not been stopped and whose plot is done ends
\* with the WorkSpace in Mining when the popped job's wouldMining is true and
\* in Ready when it is false; Plot on the plotting WorkSpace sets the flag to
\* false and Mine sets it to true, so the last of them decides; the flag is
\* the popped job's own when the run starts and is changed, while the run
\* lasts, by a Plot, a Mine or a Stop on that WorkSpace only.
C20_LandsByWouldMining ==
    /\ [](\A sid \in workSpaceIndex[Plotting] :
            (plotter = "plotting" /\ ~poppedItem.nil /\ poppedItem.sid = sid /\ ~stopPlot) =>
                /\ Landing(PlotterEndSys(Sys, TRUE), sid) =
                      (IF poppedItem.wouldMining THEN Mining ELSE Ready)
                /\ Exists(Sys, sid) =>
                      /\ PlotWS(Sys, sid).err = ErrNil /\ MineWS(Sys, sid).err = ErrNil
                      /\ Landing(PlotterEndSys(PlotWS(Sys, sid).sys, TRUE), sid) = Ready
                      /\ Landing(PlotterEndSys(MineWS(Sys, sid).sys, TRUE), sid) = Mining
                      /\ Landing(PlotterEndSys(PlotWS(MineWS(Sys, sid).sys, sid).sys, TRUE), sid) = Ready
                      /\ Landing(PlotterEndSys(MineWS(PlotWS(Sys, sid).sys, sid).sys, TRUE), sid) = Mining)
    /\ [][/\ (poppedItem.nil /\ ~poppedItem'.nil) =>
               (queue # <<>> /\ poppedItem' = Head(queue))
          /\ (~poppedItem.nil /\ ~poppedItem'.nil /\ poppedItem' # poppedItem) =>
               LET sid == poppedItem.sid
               IN  /\ Exists(Sys, sid)
                   /\ poppedItem' = [poppedItem EXCEPT !.wouldMining = ~@]
                   /\ \/ Sys' = PlotWS(Sys, sid).sys /\ ~poppedItem'.wouldMining
                      \/ Sys' = MineWS(Sys, sid).sys /\ poppedItem'.wouldMining
                      \/ Sys' = StopWS(Sys, sid).sys /\ stopPlot']_vars

\* a run in flight, not stopped, on a WorkSpace in use whose job is to land in
\* Mining, while a job enqueued for Ready waits for the same WorkSpace
C20_RunToLandInMining ==
    /\ plotter = "plotting"
    /\ ~stopPlot
    /\ ~poppedItem.nil
    /\ poppedItem.wouldMining
    /\ using[poppedItem.sid]
    /\ poppedItem.sid \in workSpaceIndex[Plotting]
    /\ \E i \in 1..Len(newQueuedWorkSpaceCh) :
          /\ newQueuedWorkSpaceCh[i].sid = poppedItem.sid
          /\ ~newQueuedWorkSpaceCh[i].wouldMining

\* the call Plot(sid) has found sid in use and Registered and is at its send
PlotCalled(sid) ==
    \E t \in Threads : thr[t].at = "send" /\ thr[t].op = "Plot" /\ thr[t].job.sid = sid

OneJobEach(q, sel, wouldMining) ==
    /\ \A i \in 1..Len(q) : q[i].sid \in sel /\ q[i].wouldMining = wouldMining
    /\ \A sid \in sel : Cardinality({i \in 1..Len(q) : q[i].sid = sid}) = 1

\* after a planner body that selected sel: the queue and workSpaceList
QueueIsSelection(S, sel, execPlot, execMine) ==
    /\ IF execPlot \/ execMine THEN OneJobEach(S.q, sel, execMine) ELSE S.q = <<>>
    /\ SeqToSet(S.list) = sel
    /\ Len(S.list) = Cardinality(sel)

\* the WorkSpaces ConfigureByBitLength selects: the indexed ones taken by the
\* fill, and the ones generated when the fill is short
SelectedByBitLength(S, BlCount, order, ord) ==
    LET f == fillSpaceListByBitLength(S, BlCount)
    IN  IF f.finished THEN f.list
        ELSE f.list \cup SeqToSet(NewSids(
                 GenerateOrder(order, f.currentCount, BlCount, MaxOrdinal - ord + 1).bls, ord))

\* C22: when the body of ConfigureByBitLength or ConfigureByPubKey returns
\* nil, the queue holds exactly one job for each selected WorkSpace, with
\* wouldMining = execMine, and no other job, if execPlot or execMine is set,
\* and is empty if neither is; workSpaceList is the selected set.
C22_QueueIsSelection ==
    \A t \in Threads : thr[t].at = "cfg" =>
        \A execPlot, execMine \in BOOLEAN, free \in DiskFree :
            /\ thr[t].op = "ByPubKey" =>
                  \A target \in PubKeyTargets(Sys) :
                      LET r == ByPubKey(Sys, target, execPlot, execMine, free, nextOrdinal)
                      IN  r.err = ErrNil =>
                            QueueIsSelection(r.sys, target, execPlot, execMine)
            /\ thr[t].op = "ByBitLength" =>
                  \A BlCount \in BlCounts : \A order \in Orders(DOMAIN BlCount) :
                      LET r == ByBitLength(Sys, BlCount, execPlot, execMine, order, free,
                                           allowGenerateNewSpace, nextOrdinal)
                      IN  r.err = ErrNil =>
                            QueueIsSelection(r.sys,
                                SelectedByBitLength(Sys, BlCount, order, nextOrdinal),
                                execPlot, execMine)

\* the disk size of the WorkSpaces of a list
RECURSIVE ListSize(_)
ListSize(list) ==
    IF list = <<>> THEN 0 ELSE BitLengthDiskSize(Head(list)[2]) + ListSize(Tail(list))

\* C23: whenever the body of ConfigureBySize returns nil for a target, the
\* disk sizes of the WorkSpaces of workSpaceList add up to no more than the
\* target and to more than target - MinDiskSize, whatever plots of the three
\* bitLengths are indexed, and the queue is empty.
C23_SizeWithinTarget ==
    \A t \in Threads : (thr[t].at = "cfg" /\ thr[t].op = "BySize") =>
        \A targetSize \in WideTargets, free \in DiskFree :
            LET r == BySizeBody(Sys, targetSize, TRUE, free, allowGenerateNewSpace,
                                nextOrdinal, MaxWideOrdinal)
            IN  r.err = ErrNil =>
                  /\ ListSize(r.sys.list) <= targetSize
                  /\ targetSize - ListSize(r.sys.list) < MinDiskSize
                  /\ r.sys.q = <<>>
                  /\ r.sys.list # <<>>

\* a call about to run on a keeper that indexes plots of all three
\* bitLengths, two of the middle one, with a target that the indexed plots
\* overshoot and one that needs new plots
C23_MixedIndex ==
    /\ \E t \in Threads : thr[t].at = "cfg" /\ thr[t].op = "BySize"
    /\ \A bl \in SeqToSet(usableBitLength) : \E x \in workSpaceIndex[allState] : x[2] = bl
    /\ Cardinality({x \in workSpaceIndex[allState] : x[2] = 26}) >= 2
    /\ workSpaceList # <<>>
    /\ allowGenerateNewSpace

\* the jobs for sid in the channel and in the queue
PendingJobs(sid) ==
    Cardinality({i \in 1..Len(newQueuedWorkSpaceCh) : newQueuedWorkSpaceCh[i].sid = sid})
      + Cardinality({i \in 1..Len(queue) : queue[i].sid = sid})

\* C24: at any time a SpaceID has at most one job pending in the channel and
\* the queue together, and the WorkSpace whose plot is in flight has none.
C24_OnePendingJob ==
    \A sid \in Sids :
        /\ PendingJobs(sid) <= 1
        /\ (~poppedItem.nil /\ poppedItem.sid = sid) => PendingJobs(sid) = 0

\* C25: a WorkSpace in the Plotting index is the WorkSpace of the popped item,
\* which is there, so Plot, Mine and Stop on it, when it is in use, return
\* nil; and no planner body, whatever its input, changes the popped item or
\* the Plotting index.
C25_PlottingIsPopped ==
    /\ \A sid \in workSpaceIndex[Plotting] :
          /\ ~poppedItem.nil
          /\ poppedItem.sid = sid
          /\ Exists(Sys, sid) =>
                \A op \in {"Plot", "Mine", "Stop"} : Verb(op, Sys, sid).err = ErrNil
    /\ \A t \in Threads : thr[t].at = "cfg" =>
          \A r \in Plans(thr[t].op) :
              /\ r.sys.pop = poppedItem
              /\ r.sys.idx[Plotting] = workSpaceIndex[Plotting]

\* a plot in flight on a WorkSpace in use while a planner, past its entry
\* guards before the service was started, is about to run its body
C25_PlannerBesidePlot ==
    /\ started
    /\ \E sid \in workSpaceIndex[Plotting] : using[sid]
    /\ \E t \in Threads : thr[t].at = "cfg" /\ thr[t].op = "BySize"


\* how many WorkSpaces of bitLength bl a run of the generation loops created
Created(bls, bl) == Cardinality({i \in 1..Len(bls) : bls[i] = bl})
Max0(n) == IF n > 0 THEN n ELSE 0

\* C26: whenever a call of ConfigureByBitLength comes to its generation loops
\* (the fill left the map unfinished, generation is allowed and the disk
\* check passed), the loops create, for each bitLength of the map, at most
\* max(0, target - already selected) new WorkSpaces, also for maps with
\* counts that are zero, negative or below the number of indexed plots.
C26_GenerationBounded ==
    \A t \in Threads : (thr[t].at = "cfg" /\ thr[t].op = "ByBitLength") =>
        \A BlCount \in WideBlCounts, free \in DiskFree :
            \A order \in Orders(DOMAIN BlCount) :
                LET f == fillSpaceListByBitLength(Sys, BlCount)
                    g == GenerateOrder(order, f.currentCount, BlCount,
                                       MaxWideOrdinal - nextOrdinal + 1)
                IN  ( /\ ~f.finished
                      /\ allowGenerateNewSpace
                      /\ checkOSDiskSize(requiredOSDiskSize(order, f.currentCount, BlCount),
                                         free) = ErrNil )
                    => \A bl \in DOMAIN BlCount :
                          Created(g.bls, bl) <= Max0(BlCount[bl] - f.currentCount[bl])
====
